---- MODULE Spec2Model ----
(***************************************************************************)
(* A model of the explainer plugins of adjutorium / autoprognosis          *)
(* (plugin_risk_effect_size.py, plugin_symbolic_pursuit.py) and of the     *)
(* risk-estimation ensemble seeker exercised by                            *)
(* tests/explorers/test_risk_estimation_combos.py.                         *)
(*                                                                         *)
(* Numbers.  A predicted risk is a float; it is modelled in hundredths as  *)
(* [nan, v] (0.2 is v = 20).  An effect size is |u1 - u2| / sqrt(var): it  *)
(* is modelled exactly as a signed root [k, s, n, d], the value            *)
(* s * sqrt(n / d) with k one of "fin", "inf", "nan", so that comparisons  *)
(* with the threshold are exact and IEEE division by zero is kept.         *)
(***************************************************************************)
EXTENDS Integers, Sequences, FiniteSets, TLC

VARIABLES
    estimator,  \* the caller's estimator object: [fitted, params]
    pc,         \* the explainer: "new", "ready" (constructed) or "failed" (__init__ raised)
    plugin,     \* which explainer class was constructed
    args,       \* the task_type and prefit the constructor was called with
    self,       \* the explainer's attributes, the private model among them
    err,        \* the message of the error __init__ raised, "" if none
    calls,      \* every fit / predict made so far: <<object, method>>, in order
    ex_X,       \* the caller's table X passed to explain and plot
    ex_n,       \* how many times explain(ex_X) was called
    ex_out,     \* what the last explain(ex_X) returned
    ex_prev,    \* before the last explain: [out, self, X, estimator]
    ops,        \* explain and plot calls made on the explainer
    sh_pc,      \* population shift: "input" before the call, "done" after it
    sh_X,       \* population shift: the feature table X, a sequence of rows
    sh_preds,   \* population shift: what predict_cbk(X) returns, one risk per row
    sh_last,    \* population shift: the kind of the last sample assembled
    sh_thr,     \* population shift: self.effect_size
    sh_buckets, \* population shift: the tier the call gave every sample (its buckets)
    sh_out,     \* population shift: the returned table [rows, index]
    sk_pc,      \* seeker: "idle", "searching", "done", "cancelled" or "failed"
    sk_cfg,     \* seeker: time_horizons, num_iter, top_k
    sk_hook,    \* seeker: whether the cancellation hook reports cancellation now
    sk_at_call, \* seeker: what the hook reported when search was called
    sk_scores,  \* seeker: the candidates scored for the current horizon
    sk_scored,  \* seeker: candidates scored (cross-validated) since search was called
    sk_ens      \* seeker: the ensemble, one [models, weights] per horizon done

xvars == <<estimator, pc, plugin, args, self, err, calls, ex_X, ex_n, ex_out, ex_prev, ops>>
shvars == <<sh_pc, sh_X, sh_preds, sh_last, sh_thr, sh_buckets, sh_out>>
skvars == <<sk_pc, sk_cfg, sk_hook, sk_at_call, sk_scores, sk_scored, sk_ens>>
vars == <<xvars, shvars, skvars>>

----------------------------------------------------------------------------
(* Bounds of the inputs *)

MaxRows == 6                     \* longest feature table given to _get_population_shifts
MaxExplainRows == 4              \* longest table given to explain / plot of a constructed explainer
MaxOps == 2                      \* explain / plot calls made on one explainer
MaxIter == 3                     \* largest num_iter a seeker is configured with
MaxTopK == 2                     \* largest top_k a seeker is configured with
Features == <<"f1", "f2">>       \* X.columns
FeatVals == {0, 1}               \* values a feature takes

----------------------------------------------------------------------------
(* Floats *)

NaN == [nan |-> TRUE, v |-> 0]
Num(v) == [nan |-> FALSE, v |-> v]

\* comparisons of risks (hundredths) with a literal; any comparison with NaN is False
RLt(a, c) == ~a.nan /\ a.v < c
RGe(a, c) == ~a.nan /\ a.v >= c
REq(a, c) == ~a.nan /\ a.v = c
RGt(a, c) == ~a.nan /\ a.v > c

Sgn(i) == IF i > 0 THEN 1 ELSE IF i < 0 THEN -1 ELSE 0
AbsInt(i) == IF i < 0 THEN -i ELSE i

Zero == [k |-> "fin", s |-> 0, n |-> 0, d |-> 1]
FNaN == [k |-> "nan", s |-> 0, n |-> 0, d |-> 1]
FInf(s) == [k |-> "inf", s |-> s, n |-> 1, d |-> 1]
Root(s, n, d) == [k |-> "fin", s |-> s, n |-> n, d |-> d]

\* a < b on signed roots, as IEEE compares: False when either side is NaN
FLt(a, b) ==
    IF a.k = "nan" \/ b.k = "nan" THEN FALSE
    ELSE IF a.k = "inf" THEN a.s < 0 /\ ~(b.k = "inf" /\ b.s < 0)
    ELSE IF b.k = "inf" THEN b.s > 0
    ELSE a.s * a.n * b.d < b.s * b.n * a.d

FGe(a, b) ==
    IF a.k = "nan" \/ b.k = "nan" THEN FALSE
    ELSE IF a.k = "inf" THEN a.s > 0 \/ (b.k = "inf" /\ b.s < 0)
    ELSE IF b.k = "inf" THEN b.s < 0
    ELSE a.s * a.n * b.d >= b.s * b.n * a.d

FAbs(a) == [a EXCEPT !.s = AbsInt(a.s)]

Range(f) == {f[i] : i \in DOMAIN f}

RECURSIVE SumSeq(_)
SumSeq(s) == IF s = <<>> THEN 0 ELSE Head(s) + SumSeq(Tail(s))

RECURSIVE SumSq(_)
SumSq(s) == IF s = <<>> THEN 0 ELSE Head(s) * Head(s) + SumSq(Tail(s))

----------------------------------------------------------------------------
(* RiskEffectSizePlugin._cohend, for one column *)

\* np.var(d, ddof=1) as the fraction [n, d]; d = 0 stands for 0/0
VarDdof1(col) ==
    LET n == Len(col)
    IN  [n |-> n * SumSq(col) - SumSeq(col) * SumSeq(col), d |-> n * (n - 1)]

\* (u1 - u2) / s, before np.abs
CohendSigned(d1, d2) ==
    LET n1 == Len(d1)
        n2 == Len(d2)
        s1 == VarDdof1(d1)
        s2 == VarDdof1(d2)
        \* ((n1 - 1) * s1 + (n2 - 1) * s2) / (n1 + n2 - 2), the square of s
        pn == (n1 - 1) * s1.n * s2.d + (n2 - 1) * s2.n * s1.d
        pd == s1.d * s2.d * (n1 + n2 - 2)
        \* u1 - u2
        un == SumSeq(d1) * n2 - SumSeq(d2) * n1
        ud == n1 * n2
    IN  IF pd = 0 \/ ud = 0 THEN FNaN
        ELSE IF pn = 0 THEN (IF un = 0 THEN FNaN ELSE FInf(Sgn(un)))
        ELSE Root(Sgn(un), un * un * pd, ud * ud * pn)

cohend(d1, d2) == FAbs(CohendSigned(d1, d2))

----------------------------------------------------------------------------
(* RiskEffectSizePlugin._get_population_shifts *)

T1 == 20    \* 0.2
T2 == 50    \* 0.5
NBuckets == 4

\* row < c, row >= c, row == c, row > c and m1 & m2: boolean masks, one entry per sample
SeriesLt(row, c) == [i \in 1..Len(row) |-> RLt(row[i], c)]
SeriesGe(row, c) == [i \in 1..Len(row) |-> RGe(row[i], c)]
SeriesEq(row, c) == [i \in 1..Len(row) |-> REq(row[i], c)]
SeriesGt(row, c) == [i \in 1..Len(row) |-> RGt(row[i], c)]
SeriesAnd(m1, m2) == [i \in 1..Len(m1) |-> m1[i] /\ m2[i]]

\* output[mask] = val
MaskAssign(out, mask, val) ==
    [i \in 1..Len(out) |-> IF mask[i] THEN Num(val) ELSE out[i]]

\* the masks computed on output, which the earlier assignments have already changed
risk_to_cluster_chained(row) ==
    LET o0 == row
        o1 == MaskAssign(o0, SeriesLt(o0, T1), 0)
        o2 == MaskAssign(o1, SeriesAnd(SeriesGe(o1, T1), SeriesLt(o1, T2)), 100)
        o3 == MaskAssign(o2, SeriesGe(o2, T2), 200)
    IN  o3

risk_to_cluster(row) ==
    LET o0 == row
        o1 == MaskAssign(o0, SeriesLt(row, T1), 0)
        o2 == MaskAssign(o1, SeriesAnd(SeriesGe(row, T1), SeriesLt(row, T2)), 100)
        o3 == MaskAssign(o2, SeriesGe(row, T2), 200)
    IN  o3

\* X[mask]: the rows whose position satisfies the mask, in order
RECURSIVE SelectRows(_, _, _)
SelectRows(X, mask, i) ==
    IF i > Len(X) THEN <<>>
    ELSE (IF mask[i] THEN <<X[i]>> ELSE <<>>) \o SelectRows(X, mask, i + 1)

Column(X, key) == [i \in 1..Len(X) |-> X[i][key]]

Keys == {Features[i] : i \in 1..Len(Features)}

Label(bucket) == <<"Risk lvl 0", "Risk lvl 1", "Risk lvl 2", "Risk lvl 3">>[bucket + 1]

\* one cell of the heatmaps row: 0 unless the effect size is not below the threshold
Cell(diff, effect_size) == IF FLt(diff, effect_size) THEN Zero ELSE diff

\* the rows compared for one bucket
CurrBucket(X, buckets, bucket) ==
    SelectRows(X, SeriesEq(buckets, 100 * bucket), 1)
\* buckets >= bucket in place of buckets > bucket
OtherBucketsInclusive(X, buckets, bucket) ==
    SelectRows(X, SeriesGe(buckets, 100 * bucket), 1)
OtherBuckets(X, buckets, bucket) ==
    SelectRows(X, SeriesGt(buckets, 100 * bucket), 1)

\* <= 2 in place of < 2
SkippedAtTwo(curr, other) == Len(curr) <= 2 \/ Len(other) <= 2
Skipped(curr, other) == Len(curr) < 2 \/ Len(other) < 2

\* the new row put in front of the table
PrependRow(acc, heatmaps, bucket) ==
    [rows |-> <<heatmaps>> \o acc.rows, index |-> <<Label(bucket)>> \o acc.index]

\* output = output.append(heatmaps); index.append(f"Risk lvl {bucket}")
AppendRow(acc, heatmaps, bucket) ==
    [rows |-> Append(acc.rows, heatmaps), index |-> Append(acc.index, Label(bucket))]

RECURSIVE ShiftLoop(_, _, _, _, _)
ShiftLoop(X, buckets, effect_size, bucket, acc) ==
    IF bucket >= NBuckets THEN acc
    ELSE
        LET curr == CurrBucket(X, buckets, bucket)
            other == OtherBuckets(X, buckets, bucket)
            heatmaps == [key \in Keys |->
                            Cell(cohend(Column(curr, key), Column(other, key)),
                                 effect_size)]
        IN  IF Skipped(curr, other)
            THEN ShiftLoop(X, buckets, effect_size, bucket + 1, acc)
            ELSE ShiftLoop(X, buckets, effect_size, bucket + 1,
                           AppendRow(acc, heatmaps, bucket))

get_population_shifts(preds, X, effect_size) ==
    ShiftLoop(X, risk_to_cluster(preds), effect_size, 0,
              [rows |-> <<>>, index |-> <<>>])

----------------------------------------------------------------------------
(* The estimator plugin the explainers wrap: fit, predict, predict_proba.   *)
(* Its fitted state is [fitted, params]; params names what training left    *)
(* in it and decides every prediction.                                      *)

TrainSets == {1, 2}              \* the training tables (X, y, time_to_event) a caller has
EvalTimes == <<1, 2>>            \* the eval_times a caller passes

Unfitted == [fitted |-> FALSE, params |-> 0]
Fitted(p) == [fitted |-> TRUE, params |-> p]

fit(model, train) == Fitted(train)

\* the risk a fitted estimator gives a row at a horizon
RiskAt(params, row, horizon) ==
    LET score == row["f1"] + 2 * row["f2"]
        base == IF params = 1 THEN <<Num(10), Num(T1), Num(T2), NaN>>[score + 1]
                ELSE <<Num(T2), Num(10), Num(10), Num(T1)>>[score + 1]
    IN  IF base.nan THEN NaN ELSE Num(base.v + 10 * (horizon - 1))

Raised == [ok |-> FALSE, val |-> <<>>]
Returned(v) == [ok |-> TRUE, val |-> v]

\* predict(X, eval_times): one row per sample, one column per horizon
predict(model, X, eval_times) ==
    IF ~model.fitted THEN Raised
    ELSE Returned([i \in 1..Len(X) |->
                     [j \in 1..Len(eval_times) |-> RiskAt(model.params, X[i], eval_times[j])]])

\* predict_proba(X): one row per sample, columns P(class 0), P(class 1)
predict_proba(model, X) ==
    IF ~model.fitted THEN Raised
    ELSE Returned([i \in 1..Len(X) |->
                     LET r == RiskAt(model.params, X[i], 1)
                     IN  IF r.nan THEN <<NaN, NaN>> ELSE <<Num(100 - r.v), r>>])

----------------------------------------------------------------------------
(* Optional arguments and the explainer object *)

None == [some |-> FALSE, val |-> <<>>]
Some(v) == [some |-> TRUE, val |-> v]

NoConfig == [time_horizons |-> <<>>, num_iter |-> 0, top_k |-> 0]

NoSelf == [task_type |-> "", effect_size |-> Zero, eval_times |-> None,
           model |-> Unfitted, explainer |-> None]

\* what __init__ leaves: the explainer (or the error raised), the calls it made,
\* and the caller's estimator, which it only ever deep-copies
Failed(msg, made, est) ==
    [status |-> "failed", err |-> msg, self |-> NoSelf, calls |-> made, estimator |-> est]
Ready(slf, made, est) ==
    [status |-> "ready", err |-> "", self |-> slf, calls |-> made, estimator |-> est]

InvalidTask == "invalid task type"
InvalidRisk == "Invalid input for risk estimation interpretability"
NotFitted == "estimator is not fitted"

FitCall == <<"model", "fit">>
PredictCall == <<"model", "predict">>

\* model.fit(...) whatever prefit says
FitAlways(model, prefit, train) ==
    [model |-> fit(model, train), calls |-> <<FitCall>>]

\* if not prefit: model.fit(...)
FitUnlessPrefit(model, prefit, train) ==
    IF prefit THEN [model |-> model, calls |-> <<>>]
    ELSE [model |-> fit(model, train), calls |-> <<FitCall>>]

----------------------------------------------------------------------------
(* RiskEffectSizePlugin *)

\* the estimator trained before the risk-estimation arguments are looked at
RiskEffectSize_init_FitFirst(est, train, task_type, prefit, effect_size, time_to_event, eval_times) ==
    IF task_type \notin {"classification", "risk_estimation"}
    THEN Failed(InvalidTask, <<>>, est)
    ELSE
        LET f == FitUnlessPrefit(est, prefit, train)
            slf == [task_type |-> task_type, effect_size |-> effect_size,
                    eval_times |-> eval_times, model |-> f.model, explainer |-> None]
        IN  IF task_type = "risk_estimation" /\ (~time_to_event.some \/ ~eval_times.some)
            THEN Failed(InvalidRisk, f.calls, est)
            ELSE Ready(slf, f.calls, est)

\* no deep copy: model is the caller's estimator itself, so training it trains the caller's
RiskEffectSize_init_NoCopy(est, train, task_type, prefit, effect_size, time_to_event, eval_times) ==
    IF task_type \notin {"classification", "risk_estimation"}
    THEN Failed(InvalidTask, <<>>, est)
    ELSE IF task_type = "risk_estimation" /\ (~time_to_event.some \/ ~eval_times.some)
    THEN Failed(InvalidRisk, <<>>, est)
    ELSE
        LET f == FitUnlessPrefit(est, prefit, train)
            slf == [task_type |-> task_type, effect_size |-> effect_size,
                    eval_times |-> eval_times, model |-> f.model, explainer |-> None]
        IN  Ready(slf, [i \in 1..Len(f.calls) |-> <<"estimator", f.calls[i][2]>>], f.model)

RiskEffectSize_init(est, train, task_type, prefit, effect_size, time_to_event, eval_times) ==
    IF task_type \notin {"classification", "risk_estimation"}
    THEN Failed(InvalidTask, <<>>, est)
    ELSE
        LET model == est       \* copy.deepcopy(estimator)
            slf == [task_type |-> task_type, effect_size |-> effect_size,
                    eval_times |-> eval_times, model |-> model, explainer |-> None]
        IN  IF task_type = "classification"
            THEN LET f == FitUnlessPrefit(model, prefit, train)
                 IN  Ready([slf EXCEPT !.model = f.model], f.calls, est)
            ELSE IF ~time_to_event.some \/ ~eval_times.some
            THEN Failed(InvalidRisk, <<>>, est)
            ELSE LET f == FitUnlessPrefit(model, prefit, train)
                 IN  Ready([slf EXCEPT !.model = f.model], f.calls, est)

\* self.predict_cbk(X): the risk of every sample, or the estimator's error
predict_cbk(slf, X) ==
    IF slf.task_type = "classification"
    THEN LET r == predict_proba(slf.model, X)
         IN  IF r.ok THEN Returned([i \in 1..Len(X) |-> r.val[i][2]]) ELSE Raised
    ELSE LET r == predict(slf.model, X, slf.eval_times.val)
         IN  IF r.ok THEN Returned([i \in 1..Len(X) |-> r.val[i][1]]) ELSE Raised

NoOutput == [status |-> "none", table |-> [rows |-> <<>>, index |-> <<>>], importance |-> <<>>]
RaisedOutput == [NoOutput EXCEPT !.status = "raised"]

\* the table kept on the explainer between calls: each call appends to the last one's rows
RiskEffectSize_explain_KeepsRows(slf, X) ==
    LET preds == predict_cbk(slf, X)
        new == get_population_shifts(preds.val, X, slf.effect_size)
    IN  [out |-> IF preds.ok
                 THEN [NoOutput EXCEPT !.status = "ok",
                          !.table = [rows |-> ex_out.table.rows \o new.rows,
                                     index |-> ex_out.table.index \o new.index]]
                 ELSE RaisedOutput,
         self |-> slf,
         X |-> X,
         calls |-> <<PredictCall>>]

\* explain(X): what it returns and what it leaves of the explainer and of the caller's X
RiskEffectSize_explain(slf, X) ==
    LET preds == predict_cbk(slf, X)
    IN  [out |-> IF preds.ok
                 THEN [NoOutput EXCEPT !.status = "ok",
                          !.table = get_population_shifts(preds.val, X, slf.effect_size)]
                 ELSE RaisedOutput,
         self |-> slf,
         X |-> X,
         calls |-> <<PredictCall>>]

\* plot(X): computes the same table and draws it; nothing is returned
RiskEffectSize_plot(slf, X) ==
    [self |-> slf, X |-> X, calls |-> <<PredictCall>>]

----------------------------------------------------------------------------
(* SymbolicPursuitPlugin *)

\* SymbolicRegressor(...).fit(f, X): the surrogate of the prediction function f,
\* which it evaluates on X
SymbolicRegressor_fit(model, task_type, horizon) ==
    IF ~model.fitted THEN Raised
    ELSE Returned([task_type |-> task_type, params |-> model.params, horizon |-> horizon])

SymbolicPursuit_init(est, train, task_type, prefit, time_to_event, eval_times) ==
    IF task_type \notin {"classification", "risk_estimation", "regression"}
    THEN Failed(InvalidTask, <<>>, est)
    ELSE
        LET model == est       \* copy.deepcopy(estimator)
            slf == [task_type |-> task_type, effect_size |-> Zero,
                    eval_times |-> eval_times, model |-> model, explainer |-> None]
            Build(surrogate_task, horizon) ==
                LET f == FitUnlessPrefit(model, prefit, train)
                    e == SymbolicRegressor_fit(f.model, surrogate_task, horizon)
                    made == f.calls \o <<PredictCall>>
                IN  IF e.ok
                    THEN Ready([slf EXCEPT !.model = f.model, !.explainer = Some(e.val)], made, est)
                    ELSE Failed(NotFitted, made, est)
        IN  IF task_type = "classification" THEN Build("classification", 1)
            ELSE IF task_type = "regression" THEN Build("regression", 1)
            ELSE IF ~time_to_event.some \/ ~eval_times.some
            THEN Failed(InvalidRisk, <<>>, est)
            ELSE Build("classification", eval_times.val[Len(eval_times.val)])

\* self.explainer.get_feature_importance(row.values)
get_feature_importance(surrogate, row) ==
    [key \in Keys |-> row[key] * surrogate.params + surrogate.horizon]

SymbolicPursuit_explain(slf, X) ==
    [out |-> [NoOutput EXCEPT !.status = "ok",
                 !.importance = [i \in 1..Len(X) |->
                                    get_feature_importance(slf.explainer.val, X[i])]],
     self |-> slf,
     X |-> X,
     calls |-> <<>>]

SymbolicPursuit_plot(slf, X) ==
    [self |-> slf, X |-> X, calls |-> <<>>]

----------------------------------------------------------------------------
(* A caller holding an estimator constructs one explainer and calls explain *)
(* and plot on it, always with the same table X.                            *)

Thresholds == {Root(1, 1, 4), Root(1, 1, 1)}     \* effect_size 0.5 (default), 1.0
TaskTypes == {"classification", "regression", "risk_estimation", "clustering"}

RowVals == [Keys -> FeatVals]

RECURSIVE SetToSeq(_)
SetToSeq(S) ==
    IF S = {} THEN <<>>
    ELSE LET x == CHOOSE y \in S : TRUE IN <<x>> \o SetToSeq(S \ {x})

RowKinds == SetToSeq(RowVals)

\* the tables of exactly len rows, listed in non-decreasing row kind
RECURSIVE Nondec(_, _)
Nondec(len, lo) ==
    IF len = 0 THEN {<<>>}
    ELSE UNION {{<<RowKinds[k]>> \o t : t \in Nondec(len - 1, k)} : k \in lo..Len(RowKinds)}

ExplainInputs == UNION {Nondec(len, 1) : len \in 0..MaxExplainRows}

NoArgs == [task_type |-> "", prefit |-> FALSE, time_to_event |-> FALSE, eval_times |-> FALSE]
NoPrev == [out |-> NoOutput, self |-> NoSelf, X |-> <<>>, estimator |-> Unfitted]

Init ==
    /\ estimator \in {Unfitted} \cup {Fitted(p) : p \in TrainSets}
    /\ pc = "new"
    /\ plugin = ""
    /\ args = NoArgs
    /\ self = NoSelf
    /\ err = ""
    /\ calls = <<>>
    /\ ex_X = <<>>
    /\ ex_n = 0
    /\ ex_out = NoOutput
    /\ ex_prev = NoPrev
    /\ ops = 0
    /\ sh_pc = "off"
    /\ sh_X = <<>>
    /\ sh_preds = <<>>
    /\ sh_last = 1
    /\ sh_thr = Zero
    /\ sh_buckets = <<>>
    /\ sh_out = [rows |-> <<>>, index |-> <<>>]
    /\ sk_pc = "off"
    /\ sk_cfg = NoConfig
    /\ sk_hook = FALSE
    /\ sk_at_call = FALSE
    /\ sk_scores = <<>>
    /\ sk_scored = 0
    /\ sk_ens = <<>>

Constructed(name, task_type, prefit, tte, ev, r) ==
    /\ pc' = r.status
    /\ plugin' = name
    /\ args' = [task_type |-> task_type, prefit |-> prefit,
                time_to_event |-> tte, eval_times |-> ev]
    /\ self' = r.self
    /\ err' = r.err
    /\ calls' = calls \o r.calls
    /\ estimator' = r.estimator
    /\ UNCHANGED <<ex_X, ex_n, ex_out, ex_prev, ops, shvars, skvars>>

ConstructRiskEffectSize ==
    /\ pc = "new"
    /\ \E task_type \in TaskTypes, prefit \in BOOLEAN, effect_size \in Thresholds,
          train \in TrainSets, tte \in BOOLEAN, ev \in BOOLEAN :
          Constructed("risk_effect_size", task_type, prefit, tte, ev,
                      RiskEffectSize_init(estimator, train, task_type, prefit, effect_size,
                                          IF tte THEN Some(train) ELSE None,
                                          IF ev THEN Some(EvalTimes) ELSE None))

ConstructSymbolicPursuit ==
    /\ pc = "new"
    /\ \E task_type \in TaskTypes, prefit \in BOOLEAN,
          train \in TrainSets, tte \in BOOLEAN, ev \in BOOLEAN :
          Constructed("symbolic_pursuit", task_type, prefit, tte, ev,
                      SymbolicPursuit_init(estimator, train, task_type, prefit,
                                           IF tte THEN Some(train) ELSE None,
                                           IF ev THEN Some(EvalTimes) ELSE None))

\* the table of this call: chosen at the first call, the same one afterwards
CallerX == IF ops = 0 THEN ExplainInputs ELSE {ex_X}

Explain ==
    /\ pc = "ready"
    /\ ops < MaxOps
    /\ \E X \in CallerX :
          LET r == IF plugin = "risk_effect_size"
                   THEN RiskEffectSize_explain(self, X)
                   ELSE SymbolicPursuit_explain(self, X)
          IN  /\ ex_prev' = [out |-> ex_out, self |-> self, X |-> X, estimator |-> estimator]
              /\ ex_out' = r.out
              /\ self' = r.self
              /\ ex_X' = r.X
              /\ calls' = calls \o r.calls
    /\ ex_n' = ex_n + 1
    /\ ops' = ops + 1
    /\ UNCHANGED <<estimator, pc, plugin, args, err, shvars, skvars>>

Plot ==
    /\ pc = "ready"
    /\ ops < MaxOps
    /\ \E X \in CallerX :
          LET r == IF plugin = "risk_effect_size"
                   THEN RiskEffectSize_plot(self, X)
                   ELSE SymbolicPursuit_plot(self, X)
          IN  /\ self' = r.self
              /\ ex_X' = r.X
              /\ calls' = calls \o r.calls
    /\ ops' = ops + 1
    /\ UNCHANGED <<estimator, pc, plugin, args, err, ex_n, ex_out, ex_prev, shvars, skvars>>

Next == ConstructRiskEffectSize \/ ConstructSymbolicPursuit \/ Explain \/ Plot

Spec == Init /\ [][Next]_vars

----------------------------------------------------------------------------
(* The population-shift computation on its own: a caller assembles a table  *)
(* and the predictions that go with it, then calls _get_population_shifts.  *)
(* The result reads X and the predictions only through masks, lengths and   *)
(* sums, none of which depends on the order of the samples, so tables are   *)
(* assembled in non-decreasing sample kind.  A sample whose prediction is   *)
(* missing enters no group and its features are never read: one row value   *)
(* stands for all of them.                                                  *)

Risks == {Num(10), Num(T1), Num(T2)}
ZeroRow == [key \in Keys |-> 0]

SampleKinds ==
    SetToSeq({[risk |-> p, row |-> r] : p \in Risks, r \in RowVals}
                 \cup {[risk |-> NaN, row |-> ZeroRow]})

NoTable == [rows |-> <<>>, index |-> <<>>]

InitShift ==
    /\ estimator = Unfitted
    /\ pc = "off"
    /\ plugin = ""
    /\ args = NoArgs
    /\ self = NoSelf
    /\ err = ""
    /\ calls = <<>>
    /\ ex_X = <<>>
    /\ ex_n = 0
    /\ ex_out = NoOutput
    /\ ex_prev = NoPrev
    /\ ops = 0
    /\ sh_pc = "input"
    /\ sh_X = <<>>
    /\ sh_preds = <<>>
    /\ sh_last = 1
    /\ sh_thr = Zero
    /\ sh_buckets = <<>>
    /\ sh_out = NoTable
    /\ sk_pc = "off"
    /\ sk_cfg = NoConfig
    /\ sk_hook = FALSE
    /\ sk_at_call = FALSE
    /\ sk_scores = <<>>
    /\ sk_scored = 0
    /\ sk_ens = <<>>

AddSample ==
    /\ sh_pc = "input"
    /\ Len(sh_X) < MaxRows
    /\ \E k \in sh_last..Len(SampleKinds) :
          /\ sh_X' = Append(sh_X, SampleKinds[k].row)
          /\ sh_preds' = Append(sh_preds, SampleKinds[k].risk)
          /\ sh_last' = k
    /\ UNCHANGED <<sh_pc, sh_thr, sh_buckets, sh_out, xvars, skvars>>

CallShifts ==
    /\ sh_pc = "input"
    /\ \E thr \in Thresholds :
          /\ sh_thr' = thr
          /\ sh_buckets' = risk_to_cluster(sh_preds)
          /\ sh_out' = get_population_shifts(sh_preds, sh_X, thr)
    /\ sh_pc' = "done"
    /\ UNCHANGED <<sh_X, sh_preds, sh_last, xvars, skvars>>

NextShift == AddSample \/ CallShifts

SpecShift == InitShift /\ [][NextShift]_vars

----------------------------------------------------------------------------
(* Properties of the explainers' construction and of explain *)

Accepted(name) ==
    IF name = "risk_effect_size" THEN {"classification", "risk_estimation"}
    ELSE {"classification", "risk_estimation", "regression"}

BadConfiguration ==
    \/ args.task_type \notin Accepted(plugin)
    \/ args.task_type = "risk_estimation" /\ (~args.time_to_event \/ ~args.eval_times)

\* C2: constructing an explainer with a task type outside its accepted set, or with
\* task_type risk_estimation while time_to_event or eval_times is missing, raises a
\* configuration error, and no fit or predict was made on any model before it.
C2_ConfigErrorBeforeComputation ==
    (pc # "new" /\ BadConfiguration)
        => /\ pc = "failed"
           /\ err \in {InvalidTask, InvalidRisk}
           /\ calls = <<>>

\* a risk-estimation explainer without eval_times, asked to train an unfitted estimator
C2_Witness ==
    /\ pc = "failed"
    /\ args.task_type = "risk_estimation"
    /\ args.time_to_event /\ ~args.eval_times
    /\ ~args.prefit
    /\ ~estimator.fitted

IsFit(c) == c[2] = "fit"
FitPositions == {i \in 1..Len(calls) : IsFit(calls[i])}

\* C7: with prefit=True no fit is ever made, on the supplied estimator or on the copy;
\* with prefit=False a constructed explainer has made exactly one fit, on its copy,
\* before any use of the prediction function.
C7_PrefitSkipsTraining ==
    /\ \A i \in 1..Len(calls) : calls[i][1] = "model"
    /\ (pc # "new" /\ args.prefit) => FitPositions = {}
    /\ (pc = "ready" /\ ~args.prefit) => FitPositions = {1}
    /\ (pc # "new" /\ ~args.prefit /\ calls # <<>>) => FitPositions = {1}

\* an explainer that trained its copy and then used the prediction function
C7_Witness ==
    /\ pc = "ready"
    /\ ~args.prefit
    /\ Len(calls) >= 2
    /\ calls[2] = PredictCall

----------------------------------------------------------------------------
(* Properties of _get_population_shifts *)

Buckets == 0..(NBuckets - 1)

\* the samples _get_population_shifts puts in tier b, and in the tiers above b
InTier(b) == {i \in 1..Len(sh_buckets) : REq(sh_buckets[i], 100 * b)}
AboveTier(b) == {i \in 1..Len(sh_buckets) : RGt(sh_buckets[i], 100 * b)}

TierOfLabel(l) == CHOOSE b \in Buckets : Label(b) = l

\* C3: a row for tier b is in the output if and only if tier b has at least 2 samples
\* and the tiers strictly above b have at least 2 samples together.
C3_RowIffBothGroupsHaveTwo ==
    sh_pc = "done"
        => \A b \in Buckets :
              Label(b) \in Range(sh_out.index)
                  <=> (Cardinality(InTier(b)) >= 2 /\ Cardinality(AboveTier(b)) >= 2)

\* exactly 2 samples in a tier and exactly 2 above it, and the row is there
C3_Witness ==
    /\ sh_pc = "done"
    /\ \E b \in Buckets :
          /\ Cardinality(InTier(b)) = 2
          /\ Cardinality(AboveTier(b)) = 2
          /\ Label(b) \in Range(sh_out.index)

NonNegative(c) == c.k # "nan" /\ c.s >= 0

\* the effect size of a feature between tier b and the tiers above it
EffectSize(b, key) ==
    cohend(Column(CurrBucket(sh_X, sh_buckets, b), key),
           Column(OtherBuckets(sh_X, sh_buckets, b), key))

\* C4: every cell of the output is non-negative: it is the effect size when the
\* effect size is greater than or equal to the threshold, and 0 otherwise.
C4_CellsNonNegative ==
    sh_pc = "done"
        => \A j \in 1..Len(sh_out.rows) : \A key \in Keys :
              LET d == EffectSize(TierOfLabel(sh_out.index[j]), key)
                  cell == sh_out.rows[j][key]
              IN  /\ NonNegative(cell)
                  /\ cell = IF FGe(d, sh_thr) THEN d ELSE Zero

\* C8: the rows are in strictly increasing tier order, no label twice, and there are
\* as many index labels as rows.
C8_RowsInTierOrder ==
    sh_pc = "done"
        => /\ Len(sh_out.index) = Len(sh_out.rows)
           /\ \A i \in 1..Len(sh_out.index) : sh_out.index[i] \in {Label(b) : b \in Buckets}
           /\ \A i, j \in 1..Len(sh_out.index) :
                 i < j => TierOfLabel(sh_out.index[i]) < TierOfLabel(sh_out.index[j])

\* a table with the rows of tier 0 and of tier 1
C8_Witness ==
    /\ sh_pc = "done"
    /\ sh_out.index = <<Label(0), Label(1)>>
    /\ Len(sh_out.rows) = 2

\* C9: a sample with predicted risk r is in tier 0 if r < 0.2, in tier 1 if
\* 0.2 <= r < 0.5, in tier 2 if r >= 0.5, and never in tier 3.
C9_TierThresholds ==
    sh_pc = "done"
        => \A i \in 1..Len(sh_preds) :
              ~sh_preds[i].nan
                  => LET r == sh_preds[i].v
                         t == sh_buckets[i]
                     IN  /\ t = Num(IF r < 20 THEN 0 ELSE IF r < 50 THEN 100 ELSE 200)
                         /\ Cardinality({b \in Buckets : i \in InTier(b)}) = 1
                         /\ i \notin InTier(3)

\* a table with a risk of exactly 0.2 and a risk of exactly 0.5
C9_Witness ==
    /\ sh_pc = "done"
    /\ \E i, j \in 1..Len(sh_preds) :
          /\ sh_preds[i] = Num(20) /\ i \in InTier(1)
          /\ sh_preds[j] = Num(50) /\ j \in InTier(2)

\* C10: the output never has a row for tier 2 or tier 3, so at most two rows: nothing
\* is above tier 2, whatever the number of samples in tier 2.
C10_NoRowForTopTiers ==
    sh_pc = "done"
        => /\ Label(2) \notin Range(sh_out.index)
           /\ Label(3) \notin Range(sh_out.index)
           /\ Len(sh_out.rows) <= 2
           /\ AboveTier(2) = {}

\* tier 2 holds 2 samples or more, and so do the tiers below it
C10_Witness ==
    /\ sh_pc = "done"
    /\ Cardinality(InTier(2)) >= 2
    /\ Cardinality(InTier(1)) >= 2

----------------------------------------------------------------------------
(* RiskEnsembleSeeker.search: per horizon, candidates are sampled and       *)
(* scored by cross-validation, the cancellation hook polled before each;    *)
(* the top_k best are kept with their weights.                              *)

HorizonLists == {<<2>>, <<2, 5>>}            \* the time_horizons a seeker is configured with
ScorePairs == {[c |-> 2, b |-> 1], [c |-> 1, b |-> 1], [c |-> 1, b |-> 2]}
                                             \* (concordance index, Brier score) of a candidate

\* the hook looked at only once a candidate has been scored
CancelledAfterScoring(hook, scored) == hook /\ scored >= 1

\* the poll of the hook made before search starts and before each candidate is scored
Cancelled(hook, scored) == hook

\* higher concordance first, then lower Brier score, then the earlier candidate
Better(a, b) ==
    \/ a.c > b.c
    \/ a.c = b.c /\ a.b < b.b
    \/ a.c = b.c /\ a.b = b.b /\ a.id < b.id

RECURSIVE Ranked(_)
Ranked(S) ==
    IF S = {} THEN <<>>
    ELSE LET best == CHOOSE a \in S : \A b \in S \ {a} : Better(a, b)
         IN  <<best>> \o Ranked(S \ {best})

\* every ranked candidate kept
TopKKeepsAll(ranked, top_k) == ranked

\* the top_k best of the ranked candidates
TopK(ranked, top_k) ==
    IF Len(ranked) <= top_k THEN ranked ELSE SubSeq(ranked, 1, top_k)

\* the entry of one horizon: the kept candidates and a uniform weight for each
\* (weight 1 / Len(models), written as the pair <<1, Len(models)>>)
HorizonEntry(scores, top_k) ==
    LET kept == TopK(Ranked(Range(scores)), top_k)
    IN  [models |-> [i \in 1..Len(kept) |-> kept[i].id],
         weights |-> [i \in 1..Len(kept) |-> <<1, Len(kept)>>]]

InitSeeker ==
    /\ estimator = Unfitted
    /\ pc = "off"
    /\ plugin = ""
    /\ args = NoArgs
    /\ self = NoSelf
    /\ err = ""
    /\ calls = <<>>
    /\ ex_X = <<>>
    /\ ex_n = 0
    /\ ex_out = NoOutput
    /\ ex_prev = NoPrev
    /\ ops = 0
    /\ sh_pc = "off"
    /\ sh_X = <<>>
    /\ sh_preds = <<>>
    /\ sh_last = 1
    /\ sh_thr = Zero
    /\ sh_buckets = <<>>
    /\ sh_out = NoTable
    /\ sk_pc = "idle"
    /\ sk_cfg \in [time_horizons : HorizonLists, num_iter : 1..MaxIter, top_k : 1..MaxTopK]
    /\ sk_hook \in BOOLEAN
    /\ sk_at_call = FALSE
    /\ sk_scores = <<>>
    /\ sk_scored = 0
    /\ sk_ens = <<>>

\* raise StudyCancelled: the search is abandoned and nothing is returned
RaiseCancelled ==
    /\ sk_pc' = "cancelled"
    /\ sk_ens' = <<>>
    /\ sk_scores' = <<>>

\* the user cancels the study
HookCancels ==
    /\ sk_pc \in {"idle", "searching"}
    /\ ~sk_hook
    /\ sk_hook' = TRUE
    /\ UNCHANGED <<sk_pc, sk_cfg, sk_at_call, sk_scores, sk_scored, sk_ens, xvars, shvars>>

Search ==
    /\ sk_pc = "idle"
    /\ sk_at_call' = sk_hook
    /\ IF Cancelled(sk_hook, sk_scored)
       THEN RaiseCancelled
       ELSE sk_pc' = "searching" /\ UNCHANGED <<sk_ens, sk_scores>>
    /\ UNCHANGED <<sk_cfg, sk_hook, sk_scored, xvars, shvars>>

\* one more candidate of the current horizon is sampled and cross-validated
ScoreCandidate ==
    /\ sk_pc = "searching"
    /\ Len(sk_scores) < sk_cfg.num_iter
    /\ IF Cancelled(sk_hook, sk_scored)
       THEN RaiseCancelled /\ UNCHANGED sk_scored
       ELSE /\ \E p \in ScorePairs :
                 sk_scores' = Append(sk_scores, [id |-> Len(sk_scores) + 1, c |-> p.c, b |-> p.b])
            /\ sk_scored' = sk_scored + 1
            /\ UNCHANGED <<sk_pc, sk_ens>>
    /\ UNCHANGED <<sk_cfg, sk_hook, sk_at_call, xvars, shvars>>

\* the horizon ends: every candidate was scored, or its timeout has passed
FinishHorizon(timed_out) ==
    /\ sk_pc = "searching"
    /\ IF timed_out THEN Len(sk_scores) < sk_cfg.num_iter
                    ELSE Len(sk_scores) = sk_cfg.num_iter
    /\ IF sk_scores = <<>>
       THEN sk_pc' = "failed" /\ sk_ens' = <<>> /\ UNCHANGED sk_scores
       ELSE /\ sk_ens' = Append(sk_ens, HorizonEntry(sk_scores, sk_cfg.top_k))
            /\ sk_scores' = <<>>
            /\ sk_pc' = IF Len(sk_ens) + 1 = Len(sk_cfg.time_horizons)
                        THEN "done" ELSE "searching"
    /\ UNCHANGED <<sk_cfg, sk_hook, sk_at_call, sk_scored, xvars, shvars>>

AllScored == FinishHorizon(FALSE)
Timeout == FinishHorizon(TRUE)

NextSeeker == HookCancels \/ Search \/ ScoreCandidate \/ AllScored \/ Timeout

SpecSeeker == InitSeeker /\ [][NextSeeker]_vars

\* C1: if the hook already reports cancellation when search is called, search raises
\* StudyCancelled, returns no ensemble, and no candidate was scored on any horizon.
C1_CancelledBeforeScoring ==
    (sk_pc # "idle" /\ sk_at_call)
        => /\ sk_pc = "cancelled"
           /\ sk_ens = <<>>
           /\ sk_scored = 0

\* search was called with the hook reporting cancellation
C1_Witness ==
    /\ sk_pc = "cancelled"
    /\ sk_at_call
    /\ sk_cfg.num_iter = MaxIter

\* C6: the returned ensemble has one entry (one weight vector) per configured horizon,
\* and each entry holds at most top_k estimators, whatever was scored before a timeout.
C6_AtMostTopK ==
    /\ \A h \in 1..Len(sk_ens) :
          /\ Len(sk_ens[h].models) <= sk_cfg.top_k
          /\ Len(sk_ens[h].weights) = Len(sk_ens[h].models)
    /\ sk_pc = "done" => Len(sk_ens) = Len(sk_cfg.time_horizons)

\* num_iter = 3 candidates scored with top_k = 2, and the ensemble returned
C6_Witness ==
    /\ sk_pc = "done"
    /\ sk_cfg.num_iter = 3
    /\ sk_cfg.top_k = 2
    /\ sk_scored = 3 * Len(sk_cfg.time_horizons)
    /\ \A h \in 1..Len(sk_ens) : Len(sk_ens[h].models) = 2

----------------------------------------------------------------------------
(* The caller's estimator *)

\* C11: constructing an explainer and calling explain or plot on it never changes the
\* estimator the caller passed in: no step changes it, and every fit and predict made
\* is on the explainer's private copy.
C11_EstimatorUntouched ==
    /\ [][estimator' = estimator]_vars
    /\ [](\A i \in 1..Len(calls) : calls[i][1] = "model")

\* an unfitted estimator handed to an explainer that trained its copy, then explain
\* and plot were both called
C11_Witness ==
    /\ pc = "ready"
    /\ ~args.prefit
    /\ ~estimator.fitted
    /\ self.model.fitted
    /\ ops = MaxOps
    /\ ex_n = 1
    /\ calls[1] = FitCall
    /\ calls[Len(calls)] = PredictCall

====
